---- MODULE Spec2Model ----
\* A model of the size-bounded artifact cache of
\* src/cornerstone-core/src/cache/cache.ts (class Cache).
\*
\* Each Map is a sequence of entry objects in insertion order (the iteration
\* order of a JavaScript Map), keyed by the id each entry carries.
\*
\* put registers two callbacks on the promise of the load object.  They close
\* over the id and over the entry OBJECT made by that put, not over the Map
\* slot.  While that object is in the Map, its field promise = "pending" says
\* that its callbacks have not run yet.  When the object leaves the Map with
\* its callbacks still to run (removed, purged, replaced by a later put of the
\* same id, or deleted by another load's rejection), the callbacks live on in
\* `detached`: the cache never reads that object again, so only the class and
\* id they test and the way the object left the Map are kept.
EXTENDS Integers, Sequences, FiniteSets, Bags, TLC

\* ---------------------------------------------------------------- bounds
\* number of load objects ever put (images and volumes together)
MaxLoads == 2
\* removals stop once the running total would fall below -MaxDeficit
MaxDeficit == 30

\* ------------------------------------------------------------- constants
MAX_CACHE_SIZE_1GB == 1073741824

UNDEFINED == "undefined"
ImageIds == {"a", "b"}
VolumeIds == {"v"}
\* the values Date.now() takes
Times == {0, 1}

\* sizes a loader reports, arguments of setMaxCacheSize, byte requests
Sizes == {30, 60}
MaxSizes == {50, 100}
ByteRequests == {50}

\* The value a load promise resolves to.  kind is the JavaScript type of
\* its sizeInBytes: a number, undefined, or a value without toFixed.
Artifacts ==
  {[kind |-> "number", sizeInBytes |-> s] : s \in Sizes}
    \cup {[kind |-> "undefined", sizeInBytes |-> 0],
          [kind |-> "string", sizeInBytes |-> 0]}

\* ImageLoadObject / VolumeLoadObject as put receives it: whether promise is
\* defined, what the cancelFn property holds (the property put tests), and
\* what the cancel property holds (the property of the interface, the one
\* _decacheImage / _decacheVolume calls).
LoadObjects ==
  {[promise |-> TRUE, cancelFn |-> "absent", cancel |-> "absent"],
   [promise |-> TRUE, cancelFn |-> "function", cancel |-> "function"],
   [promise |-> FALSE, cancelFn |-> "absent", cancel |-> "absent"],
   [promise |-> TRUE, cancelFn |-> "other", cancel |-> "absent"],
   [promise |-> TRUE, cancelFn |-> "absent", cancel |-> "other"]}

\* The hooks of a load object as _decacheImage / _decacheVolume finds them
\* when it runs: each of cancel and decache is absent, returns, or throws
\* (a cancel that is not callable throws a TypeError when it is called).
\* The cache never looks at them before, so they are drawn at that moment.
Hooks ==
  {[cancel |-> "absent", decache |-> "absent"],
   [cancel |-> "returns", decache |-> "returns"],
   [cancel |-> "throws", decache |-> "returns"],
   [cancel |-> "returns", decache |-> "throws"]}

\* How an entry object whose callbacks are still to run left its Map.
Leaves == {"removed", "replaced", "deleted"}
\* The callbacks of a put: of the entry object in the Map, or of a detached one.
Closures == {"attached"} \cup Leaves

VARIABLES
  _imageCache,    \* Map<string, CachedImage>, insertion order
  _volumeCache,   \* Map<string, CachedVolume>, insertion order
  _cacheSize,     \* running total of bytes
  _maxCacheSize,  \* configured maximum
  detached,       \* callbacks still to run of entry objects outside the Maps
  puts,           \* number of load objects put so far
  now,            \* Date.now()
  last            \* the call or callback that produced this state, its outcome

vars == <<_imageCache, _volumeCache, _cacheSize, _maxCacheSize, detached,
          puts, now, last>>

\* `detached` is a bag: per class, id and way of leaving, the number of
\* entry objects outside the Maps whose callbacks are still to run.
DetachedKey(cls, id, left) == [cls |-> cls, id |-> id, left |-> left]

\* What a call or callback did: its argument, the error it ended with, the
\* value it returned, the events it passed to triggerEvent and the hooks of
\* load objects it called, both in order.
Outcome(op, id, who, arg, err, ret) ==
  [op |-> op, id |-> id, who |-> who, arg |-> arg, err |-> err, ret |-> ret,
   events |-> <<>>, calls |-> <<>>]

\* triggerEvent(eventTarget, type, {image: cachedImage}): the detail is the
\* entry object as it is when the event is triggered
Event(type, entry) == [type |-> type, entry |-> entry]

\* a call of the hook `hook` of the load object of the entry under id
HookCall(cls, id, hook) == [cls |-> cls, id |-> id, hook |-> hook]

\* ------------------------------------------------------------ Map helpers
MapHas(cache, id) == \E i \in DOMAIN cache : cache[i].id = id

MapIndex(cache, id) == CHOOSE i \in DOMAIN cache : cache[i].id = id

\* Map.prototype.set: an existing key keeps its place and gets the new value
MapSet(cache, id, entry) ==
  IF MapHas(cache, id)
    THEN [cache EXCEPT ![MapIndex(cache, id)] = entry]
    ELSE Append(cache, entry)

\* Map.prototype.delete
MapDelete(cache, id) == SelectSeq(cache, LAMBDA e : e.id # id)

\* Object.prototype.hasOwnProperty.call(map, id): the entries of a Map are
\* not own properties of the Map object, so this is false for every id.
HasOwnProperty(cache, id) == FALSE

\* The callbacks of the entry under id go on living outside the Map, if they
\* have not run yet.
Detach(dt, cls, cache, id, left) ==
  IF MapHas(cache, id) /\ cache[MapIndex(cache, id)].promise = "pending"
    THEN dt (+) SetToBag({DetachedKey(cls, id, left)})
    ELSE dt

\* ------------------------------------------------------------------ Init
Init ==
  /\ _imageCache = <<>>
  /\ _volumeCache = <<>>
  /\ _cacheSize = 0
  /\ _maxCacheSize = MAX_CACHE_SIZE_1GB
  /\ detached = EmptyBag
  /\ puts = 0
  /\ now = 0
  /\ last = Outcome("constructor", UNDEFINED, "", 0, "none", 0)

\* A call that throws or returns before it has written anything.
Return(out) ==
  /\ last' = out
  /\ UNCHANGED <<_imageCache, _volumeCache, _cacheSize, _maxCacheSize,
                 detached, puts, now>>

\* ------------------------------------------------------- size accounting
_incrementCacheSize(size, increment) == size + increment

getCacheSize == _cacheSize
getMaxCacheSize == _maxCacheSize

\* setMaxCacheSize: the assignment comes first, the test after it
setMaxCacheSize(newMaxCacheSize) ==
  /\ _maxCacheSize' = newMaxCacheSize
  /\ last' = Outcome("setMaxCacheSize", UNDEFINED, "", newMaxCacheSize,
                     IF newMaxCacheSize > _cacheSize THEN "Error" ELSE "none",
                     0)
  /\ UNCHANGED <<_imageCache, _volumeCache, _cacheSize, detached, puts, now>>

\* (mutant) a check that also refuses a volume that fits exactly
checkCacheSizeCanSupportVolume_RefusesExactFit(byteLength) ==
  /\ last' = Outcome("checkCacheSizeCanSupportVolume", UNDEFINED, "",
                     byteLength,
                     IF getCacheSize + byteLength >= getMaxCacheSize
                       THEN "CACHE_SIZE_EXCEEDED" ELSE "none", 0)
  /\ UNCHANGED <<_imageCache, _volumeCache, _cacheSize, _maxCacheSize,
                 detached, puts, now>>

\* checkCacheSizeCanSupportVolume: throws when the volume does not fit
checkCacheSizeCanSupportVolume(byteLength) ==
  /\ last' = Outcome("checkCacheSizeCanSupportVolume", UNDEFINED, "",
                     byteLength,
                     IF getCacheSize + byteLength > getMaxCacheSize
                       THEN "CACHE_SIZE_EXCEEDED" ELSE "none", 0)
  /\ UNCHANGED <<_imageCache, _volumeCache, _cacheSize, _maxCacheSize,
                 detached, puts, now>>

\* Date.now() advances
Tick ==
  /\ now + 1 \in Times
  /\ now' = now + 1
  /\ last' = Outcome("Tick", UNDEFINED, "", 0, "none", 0)
  /\ UNCHANGED <<_imageCache, _volumeCache, _cacheSize, _maxCacheSize,
                 detached, puts>>

\* ------------------------------------------------------------ decaching
\* The hooks _decacheImage / _decacheVolume calls on a load object, in
\* order: cancel if present, then decache if present; a cancel that throws
\* ends the sequence.
HookCalls(cls, id, loadObject) ==
  (IF loadObject.cancel # "absent"
     THEN <<HookCall(cls, id, "cancel")>> ELSE <<>>)
    \o (IF loadObject.cancel # "throws" /\ loadObject.decache # "absent"
          THEN <<HookCall(cls, id, "decache")>> ELSE <<>>)

\* _decacheImage: cancel if present, decache if present, then delete.  A
\* hook that throws ends the call before the delete.
_decacheImage(ic, dt, imageId, imageLoadObject) ==
  LET calls == HookCalls("image", imageId, imageLoadObject)
  IN  IF imageLoadObject.cancel = "throws"
        THEN [cache |-> ic, detached |-> dt,
              err |-> "cancel threw", calls |-> calls]
      ELSE IF imageLoadObject.decache = "throws"
        THEN [cache |-> ic, detached |-> dt,
              err |-> "decache threw", calls |-> calls]
      ELSE [cache |-> MapDelete(ic, imageId),
            detached |-> Detach(dt, "image", ic, imageId, "removed"),
            err |-> "none", calls |-> calls]

_decacheVolume(vc, dt, volumeId, volumeLoadObject) ==
  LET calls == HookCalls("volume", volumeId, volumeLoadObject)
  IN  IF volumeLoadObject.cancel = "throws"
        THEN [cache |-> vc, detached |-> dt,
              err |-> "cancel threw", calls |-> calls]
      ELSE IF volumeLoadObject.decache = "throws"
        THEN [cache |-> vc, detached |-> dt,
              err |-> "decache threw", calls |-> calls]
      ELSE [cache |-> MapDelete(vc, volumeId),
            detached |-> Detach(dt, "volume", vc, volumeId, "removed"),
            err |-> "none", calls |-> calls]

\* ------------------------------------------------------------- eviction
\* (mutant) a sweep that takes the first image entry in the Map as its
\* victim, whether or not its load has completed
_purgeCacheIfNecessary_EvictsAny(ic, dt, size, max) ==
  IF size <= max \/ ic = <<>>
    THEN [imageCache |-> ic, detached |-> dt, cacheSize |-> size,
          err |-> "none"]
    ELSE [imageCache |-> Tail(ic),
          detached |-> Detach(dt, "image", ic, Head(ic).id, "removed"),
          cacheSize |-> size - Head(ic).sizeInBytes, err |-> "none"]

\* _purgeCacheIfNecessary.  Within budget it returns at once.  Over budget,
\* cachedImages is this._imageCache.values(), a Map iterator, and the call
\* cachedImages.sort(compare) throws a TypeError (an iterator has no sort)
\* before the removal loop is entered: nothing is removed.
_purgeCacheIfNecessary(ic, dt, size, max) ==
  IF size <= max
    THEN [imageCache |-> ic, detached |-> dt, cacheSize |-> size,
          err |-> "none"]
    ELSE [imageCache |-> ic, detached |-> dt, cacheSize |-> size,
          err |-> "TypeError"]

\* decacheUntilBytesAvailable.  bytesAvailable is computed once.  When it
\* is short, the loop's first statement reads imageIterator, a name that is
\* declared nowhere: a ReferenceError, before any entry is touched.
\* last.ret is the number returned.
decacheUntilBytesAvailable(numBytes) ==
  LET bytesAvailable == getMaxCacheSize - getCacheSize
  IN  IF bytesAvailable >= numBytes
        THEN Return(Outcome("decacheUntilBytesAvailable", UNDEFINED, "",
                            numBytes, "none", bytesAvailable))
        ELSE Return(Outcome("decacheUntilBytesAvailable", UNDEFINED, "",
                            numBytes, "ReferenceError", 0))

\* ------------------------------------------------- insertion, completion
\* the four checks of putImageLoadObject / putVolumeLoadObject, in order
PutError(id, loadObject, cache) ==
  IF id = UNDEFINED THEN "id must not be undefined"
  ELSE IF ~loadObject.promise THEN "promise must not be undefined"
  ELSE IF HasOwnProperty(cache, id) THEN "already in cache"
  ELSE IF loadObject.cancelFn = "other" THEN "cancelFn must be a function"
  ELSE "none"

putImageLoadObject(imageId, imageLoadObject) ==
  LET err == PutError(imageId, imageLoadObject, _imageCache)
      cachedImage ==
        [id |-> imageId, loaded |-> FALSE, sizeInBytes |-> 0,
         timeStamp |-> now, promise |-> "pending"]
  IN  IF err # "none"
        THEN Return(Outcome("putImageLoadObject", imageId, "",
                            imageLoadObject, err, 0))
        ELSE /\ puts < MaxLoads
             /\ puts' = puts + 1
             /\ _imageCache' = MapSet(_imageCache, imageId, cachedImage)
             /\ detached' = Detach(detached, "image", _imageCache, imageId,
                                   "replaced")
             /\ last' = Outcome("putImageLoadObject", imageId, "",
                                imageLoadObject, "none", 0)
             /\ UNCHANGED <<_volumeCache, _cacheSize, _maxCacheSize, now>>

putVolumeLoadObject(volumeId, volumeLoadObject) ==
  LET err == PutError(volumeId, volumeLoadObject, _volumeCache)
      cachedVolume ==
        [id |-> volumeId, loaded |-> FALSE, sizeInBytes |-> 0,
         timeStamp |-> now, promise |-> "pending"]
  IN  IF err # "none"
        THEN Return(Outcome("putVolumeLoadObject", volumeId, "",
                            volumeLoadObject, err, 0))
        ELSE /\ puts < MaxLoads
             /\ puts' = puts + 1
             /\ _volumeCache' = MapSet(_volumeCache, volumeId, cachedVolume)
             /\ detached' = Detach(detached, "volume", _volumeCache, volumeId,
                                   "replaced")
             /\ last' = Outcome("putVolumeLoadObject", volumeId, "",
                                volumeLoadObject, "none", 0)
             /\ UNCHANGED <<_imageCache, _cacheSize, _maxCacheSize, now>>

\* what the size checks of a completion callback throw
SizeError(artifact) ==
  IF artifact.kind = "undefined" THEN "sizeInBytes must not be undefined"
  ELSE IF artifact.kind # "number" THEN "sizeInBytes is not a number"
  ELSE "none"

\* the callbacks `who` of a put of id have not run yet
IsPending(cls, cache, id, who) ==
  IF who = "attached"
    THEN MapHas(cache, id) /\ cache[MapIndex(cache, id)].promise = "pending"
    ELSE BagIn(DetachedKey(cls, id, who), detached)

\* `detached` once the callbacks `who` have run
Settle(cls, id, who) ==
  IF who = "attached"
    THEN detached
    ELSE detached (-) SetToBag({DetachedKey(cls, id, who)})

\* A write to the entry object the callbacks closed over: it shows in the
\* Map when they are attached, and nowhere otherwise.
WriteOwn(cache, id, who, entry) ==
  IF who = "attached"
    THEN [cache EXCEPT ![MapIndex(cache, id)] = entry]
    ELSE cache

\* The success callback of imageLoadObject.promise.then.  It tests the
\* presence of the ID in the Map and then writes to the entry object it
\* closed over.  An exception thrown here rejects the promise that then()
\* returned; the sibling rejection callback does not run.
\* last.ret = 1 when _purgeCacheIfNecessary was called.  The detail of the
\* added event is the entry object closed over; of a detached one only the
\* fields written here are known.
ImageLoadFulfilled(imageId, who, image) ==
  /\ IsPending("image", _imageCache, imageId, who)
  /\ LET dt == Settle("image", imageId, who)
         own == _imageCache[MapIndex(_imageCache, imageId)]
         Loaded == [own EXCEPT !.promise = "settled", !.loaded = TRUE]
         Sized == [Loaded EXCEPT !.sizeInBytes = image.sizeInBytes]
         Detail == IF who = "attached"
                     THEN Sized
                     ELSE [id |-> imageId, loaded |-> TRUE,
                           sizeInBytes |-> image.sizeInBytes]
     IN  IF ~MapHas(_imageCache, imageId)
           THEN /\ detached' = dt
                /\ last' = Outcome("ImageLoadFulfilled", imageId, who,
                                   image.sizeInBytes, "none", 0)
                /\ UNCHANGED <<_imageCache, _volumeCache, _cacheSize,
                               _maxCacheSize, puts, now>>
         ELSE IF SizeError(image) # "none"
           THEN /\ detached' = dt
                /\ _imageCache' = WriteOwn(_imageCache, imageId, who, Loaded)
                /\ last' = Outcome("ImageLoadFulfilled", imageId, who,
                                   image.sizeInBytes, SizeError(image), 0)
                /\ UNCHANGED <<_volumeCache, _cacheSize, _maxCacheSize, puts,
                               now>>
         ELSE LET size == _incrementCacheSize(_cacheSize, image.sizeInBytes)
                  r == _purgeCacheIfNecessary(
                         WriteOwn(_imageCache, imageId, who, Sized), dt, size,
                         _maxCacheSize)
              IN  /\ _imageCache' = r.imageCache
                  /\ detached' = r.detached
                  /\ _cacheSize' = r.cacheSize
                  /\ last' = [Outcome("ImageLoadFulfilled", imageId, who,
                                      image.sizeInBytes, r.err, 1)
                                 EXCEPT !.events =
                                   <<Event("IMAGE_CACHE_IMAGE_ADDED", Detail)>>]
                  /\ UNCHANGED <<_volumeCache, _maxCacheSize, puts, now>>

\* The rejection callback of the image promise: this._imageCache.delete by
\* id, whichever entry object is under that id now.
ImageLoadRejected(imageId, who) ==
  /\ IsPending("image", _imageCache, imageId, who)
  /\ _imageCache' = MapDelete(_imageCache, imageId)
  /\ detached' = IF who = "attached"
                   THEN detached
                   ELSE Detach(Settle("image", imageId, who), "image",
                               _imageCache, imageId, "deleted")
  /\ last' = Outcome("ImageLoadRejected", imageId, who, 0, "none", 0)
  /\ UNCHANGED <<_volumeCache, _cacheSize, _maxCacheSize, puts, now>>

VolumeLoadFulfilled(volumeId, who, volume) ==
  /\ IsPending("volume", _volumeCache, volumeId, who)
  /\ LET dt == Settle("volume", volumeId, who)
         own == _volumeCache[MapIndex(_volumeCache, volumeId)]
         Loaded == [own EXCEPT !.promise = "settled", !.loaded = TRUE]
         Sized == [Loaded EXCEPT !.sizeInBytes = volume.sizeInBytes]
         Detail == IF who = "attached"
                     THEN Sized
                     ELSE [id |-> volumeId, loaded |-> TRUE,
                           sizeInBytes |-> volume.sizeInBytes]
     IN  IF ~MapHas(_volumeCache, volumeId)
           THEN /\ detached' = dt
                /\ last' = Outcome("VolumeLoadFulfilled", volumeId, who,
                                   volume.sizeInBytes, "none", 0)
                /\ UNCHANGED <<_imageCache, _volumeCache, _cacheSize,
                               _maxCacheSize, puts, now>>
         ELSE IF SizeError(volume) # "none"
           THEN /\ detached' = dt
                /\ _volumeCache' = WriteOwn(_volumeCache, volumeId, who, Loaded)
                /\ last' = Outcome("VolumeLoadFulfilled", volumeId, who,
                                   volume.sizeInBytes, SizeError(volume), 0)
                /\ UNCHANGED <<_imageCache, _cacheSize, _maxCacheSize, puts,
                               now>>
         ELSE LET size == _incrementCacheSize(_cacheSize, volume.sizeInBytes)
                  r == _purgeCacheIfNecessary(_imageCache, dt, size,
                                              _maxCacheSize)
              IN  /\ _volumeCache' = WriteOwn(_volumeCache, volumeId, who, Sized)
                  /\ _imageCache' = r.imageCache
                  /\ detached' = r.detached
                  /\ _cacheSize' = r.cacheSize
                  /\ last' = [Outcome("VolumeLoadFulfilled", volumeId, who,
                                      volume.sizeInBytes, r.err, 1)
                                 EXCEPT !.events =
                                   <<Event("IMAGE_CACHE_VOLUME_ADDED", Detail)>>]
                  /\ UNCHANGED <<_maxCacheSize, puts, now>>

\* The rejection callback of the volume promise: its first statement reads
\* this._volumeLoadObjects, a field the class never sets, and throws a
\* TypeError before this._volumeCache.delete is reached.
VolumeLoadRejected(volumeId, who) ==
  /\ IsPending("volume", _volumeCache, volumeId, who)
  /\ detached' = Settle("volume", volumeId, who)
  /\ _volumeCache' =
       WriteOwn(_volumeCache, volumeId, who,
                [_volumeCache[MapIndex(_volumeCache, volumeId)]
                   EXCEPT !.promise = "settled"])
  /\ last' = Outcome("VolumeLoadRejected", volumeId, who, 0, "TypeError", 0)
  /\ UNCHANGED <<_imageCache, _cacheSize, _maxCacheSize, puts, now>>

\* ---------------------------------------------------------------- lookup
\* last.ret = 1 when a load object is returned, 0 when undefined is
getImageLoadObject(imageId) ==
  IF imageId = UNDEFINED
    THEN Return(Outcome("getImageLoadObject", imageId, "", 0,
                        "imageId must not be undefined", 0))
  ELSE IF ~MapHas(_imageCache, imageId)
    THEN Return(Outcome("getImageLoadObject", imageId, "", 0, "none", 0))
  ELSE /\ _imageCache' =
            [_imageCache EXCEPT ![MapIndex(_imageCache, imageId)].timeStamp = now]
       /\ last' = Outcome("getImageLoadObject", imageId, "", 0, "none", 1)
       /\ UNCHANGED <<_volumeCache, _cacheSize, _maxCacheSize, detached, puts,
                      now>>

getVolumeLoadObject(volumeId) ==
  IF volumeId = UNDEFINED
    THEN Return(Outcome("getVolumeLoadObject", volumeId, "", 0,
                        "volumeId must not be undefined", 0))
  ELSE IF ~MapHas(_volumeCache, volumeId)
    THEN Return(Outcome("getVolumeLoadObject", volumeId, "", 0, "none", 0))
  ELSE /\ _volumeCache' =
            [_volumeCache EXCEPT
               ![MapIndex(_volumeCache, volumeId)].timeStamp = now]
       /\ last' = Outcome("getVolumeLoadObject", volumeId, "", 0, "none", 1)
       /\ UNCHANGED <<_imageCache, _cacheSize, _maxCacheSize, detached, puts,
                      now>>

\* --------------------------------------------------------------- removal
\* (mutant) a removal that returns silently when the id is not in the Map
removeImageLoadObject_SilentWhenAbsent(imageId) ==
  IF imageId = UNDEFINED
    THEN Return(Outcome("removeImageLoadObject", imageId, "", 0,
                        "imageId must not be undefined", 0))
  ELSE IF ~MapHas(_imageCache, imageId)
    THEN Return(Outcome("removeImageLoadObject", imageId, "", 0, "none", 0))
  ELSE \E hooks \in Hooks :
       LET cachedImage == _imageCache[MapIndex(_imageCache, imageId)]
           size == _incrementCacheSize(_cacheSize, -cachedImage.sizeInBytes)
           r == _decacheImage(_imageCache, detached, imageId, hooks)
       IN  /\ size >= -MaxDeficit
           /\ _cacheSize' = size
           /\ _imageCache' = r.cache
           /\ detached' = r.detached
           /\ last' = [Outcome("removeImageLoadObject", imageId, "", hooks,
                               r.err, 0)
                          EXCEPT !.events =
                                   <<Event("IMAGE_CACHE_IMAGE_REMOVED",
                                           cachedImage)>>,
                                 !.calls = r.calls]
           /\ UNCHANGED <<_volumeCache, _maxCacheSize, puts, now>>

\* removeImageLoadObject: the total is decremented and the event triggered
\* before _decacheImage runs the hooks (drawn here) and deletes.
\* last.arg is the hooks the call found.
removeImageLoadObject(imageId) ==
  IF imageId = UNDEFINED
    THEN Return(Outcome("removeImageLoadObject", imageId, "", 0,
                        "imageId must not be undefined", 0))
  ELSE IF ~MapHas(_imageCache, imageId)
    THEN Return(Outcome("removeImageLoadObject", imageId, "", 0,
                        "not present", 0))
  ELSE \E hooks \in Hooks :
       LET cachedImage == _imageCache[MapIndex(_imageCache, imageId)]
           size == _incrementCacheSize(_cacheSize, -cachedImage.sizeInBytes)
           r == _decacheImage(_imageCache, detached, imageId, hooks)
       IN  /\ size >= -MaxDeficit
           /\ _cacheSize' = size
           /\ _imageCache' = r.cache
           /\ detached' = r.detached
           /\ last' = [Outcome("removeImageLoadObject", imageId, "", hooks,
                               r.err, 0)
                          EXCEPT !.events =
                                   <<Event("IMAGE_CACHE_IMAGE_REMOVED",
                                           cachedImage)>>,
                                 !.calls = r.calls]
           /\ UNCHANGED <<_volumeCache, _maxCacheSize, puts, now>>

removeVolumeLoadObject(volumeId) ==
  IF volumeId = UNDEFINED
    THEN Return(Outcome("removeVolumeLoadObject", volumeId, "", 0,
                        "volumeId must not be undefined", 0))
  ELSE IF ~MapHas(_volumeCache, volumeId)
    THEN Return(Outcome("removeVolumeLoadObject", volumeId, "", 0,
                        "not present", 0))
  ELSE \E hooks \in Hooks :
       LET cachedVolume == _volumeCache[MapIndex(_volumeCache, volumeId)]
           size == _incrementCacheSize(_cacheSize, -cachedVolume.sizeInBytes)
           r == _decacheVolume(_volumeCache, detached, volumeId, hooks)
       IN  /\ size >= -MaxDeficit
           /\ _cacheSize' = size
           /\ _volumeCache' = r.cache
           /\ detached' = r.detached
           /\ last' = [Outcome("removeVolumeLoadObject", volumeId, "", hooks,
                               r.err, 0)
                          EXCEPT !.events =
                                   <<Event("IMAGE_CACHE_VOLUME_REMOVED",
                                           cachedVolume)>>,
                                 !.calls = r.calls]
           /\ UNCHANGED <<_imageCache, _maxCacheSize, puts, now>>

\* The loop of purgeCache over the keys of one Map, in insertion order (a
\* Map iterator stays valid while the entry it just returned is deleted).
\* visited counts the entries decached so far; the hooks of the failAt-th
\* entry visited are `failing`, which throws and ends purgeCache there; the
\* hooks of the entries before it return.
RECURSIVE purgeImages(_, _, _, _, _)
purgeImages(ic, dt, visited, failAt, failing) ==
  IF ic = <<>>
    THEN [cache |-> ic, detached |-> dt, err |-> "none", visited |-> visited,
          calls |-> <<>>]
  ELSE LET r == _decacheImage(ic, dt, Head(ic).id,
                              IF visited + 1 = failAt
                                THEN failing
                                ELSE [cancel |-> "returns",
                                      decache |-> "returns"])
       IN  IF r.err # "none"
             THEN [cache |-> r.cache, detached |-> r.detached, err |-> r.err,
                   visited |-> visited + 1, calls |-> r.calls]
             ELSE LET rest == purgeImages(r.cache, r.detached, visited + 1,
                                          failAt, failing)
                  IN  [rest EXCEPT !.calls = r.calls \o @]

RECURSIVE purgeVolumes(_, _, _, _, _)
purgeVolumes(vc, dt, visited, failAt, failing) ==
  IF vc = <<>>
    THEN [cache |-> vc, detached |-> dt, err |-> "none", visited |-> visited,
          calls |-> <<>>]
  ELSE LET r == _decacheVolume(vc, dt, Head(vc).id,
                               IF visited + 1 = failAt
                                 THEN failing
                                 ELSE [cancel |-> "returns",
                                       decache |-> "returns"])
       IN  IF r.err # "none"
             THEN [cache |-> r.cache, detached |-> r.detached, err |-> r.err,
                   visited |-> visited + 1, calls |-> r.calls]
             ELSE LET rest == purgeVolumes(r.cache, r.detached, visited + 1,
                                           failAt, failing)
                  IN  [rest EXCEPT !.calls = r.calls \o @]

\* purgeCache: every image key through _decacheImage, then every volume key
\* through _decacheVolume.  _cacheSize is not touched and no event is
\* triggered.  failAt = 0: no hook throws.
purgeCache(failAt, failing) ==
  LET ri == purgeImages(_imageCache, detached, 0, failAt, failing)
      rv == IF ri.err = "none"
              THEN purgeVolumes(_volumeCache, ri.detached, ri.visited, failAt,
                                failing)
              ELSE [cache |-> _volumeCache, detached |-> ri.detached,
                    err |-> ri.err, visited |-> ri.visited, calls |-> <<>>]
  IN  /\ failAt \in 0 .. (Len(_imageCache) + Len(_volumeCache))
      /\ IF failAt = 0
           THEN failing = [cancel |-> "returns", decache |-> "returns"]
           ELSE failing.cancel = "throws" \/ failing.decache = "throws"
      /\ _imageCache' = ri.cache
      /\ _volumeCache' = rv.cache
      /\ detached' = rv.detached
      /\ last' = [Outcome("purgeCache", UNDEFINED, "", failAt, rv.err, 0)
                     EXCEPT !.calls = ri.calls \o rv.calls]
      /\ UNCHANGED <<_cacheSize, _maxCacheSize, puts, now>>

Next ==
  \/ \E n \in MaxSizes : setMaxCacheSize(n)
  \/ \E b \in ByteRequests : checkCacheSizeCanSupportVolume(b)
  \/ \E b \in ByteRequests : decacheUntilBytesAvailable(b)
  \/ \E id \in ImageIds \cup {UNDEFINED}, o \in LoadObjects :
       putImageLoadObject(id, o)
  \/ \E id \in VolumeIds \cup {UNDEFINED}, o \in LoadObjects :
       putVolumeLoadObject(id, o)
  \/ \E id \in ImageIds, who \in Closures, art \in Artifacts :
       ImageLoadFulfilled(id, who, art)
  \/ \E id \in ImageIds, who \in Closures : ImageLoadRejected(id, who)
  \/ \E id \in VolumeIds, who \in Closures, art \in Artifacts :
       VolumeLoadFulfilled(id, who, art)
  \/ \E id \in VolumeIds, who \in Closures : VolumeLoadRejected(id, who)
  \/ \E id \in ImageIds \cup {UNDEFINED} : getImageLoadObject(id)
  \/ \E id \in VolumeIds \cup {UNDEFINED} : getVolumeLoadObject(id)
  \/ \E id \in ImageIds \cup {UNDEFINED} : removeImageLoadObject(id)
  \/ \E id \in VolumeIds \cup {UNDEFINED} : removeVolumeLoadObject(id)
  \/ \E n \in 0 .. MaxLoads, o \in Hooks : purgeCache(n, o)
  \/ Tick

Spec == Init /\ [][Next]_vars

\* ================================================================ claims
Ids(cache) == {cache[i].id : i \in DOMAIN cache}
LoadedIds(cache) == {cache[i].id : i \in {j \in DOMAIN cache : cache[j].loaded}}

RECURSIVE SumLoaded(_)
SumLoaded(cache) ==
  IF cache = <<>> THEN 0
  ELSE (IF Head(cache).loaded THEN Head(cache).sizeInBytes ELSE 0)
         + SumLoaded(Tail(cache))

Completions == {"ImageLoadFulfilled", "VolumeLoadFulfilled"}

\* C1: after every operation, currentSize() equals the sum of sizeInBytes
\* over the loaded entries present in the image and volume collections.
C1_SizeIsSumOfLoaded ==
  _cacheSize = SumLoaded(_imageCache) + SumLoaded(_volumeCache)

\* C2: a put of an id already present in its class's collection fails and
\* leaves the existing entry in place; a put of an absent id is never
\* refused as a duplicate and, when it succeeds, the id is present.
C2_DuplicatePutFails ==
  [][/\ (last'.op = "putImageLoadObject" /\ MapHas(_imageCache, last'.id))
          => (last'.err # "none" /\ _imageCache' = _imageCache)
     /\ (last'.op = "putVolumeLoadObject" /\ MapHas(_volumeCache, last'.id))
          => (last'.err # "none" /\ _volumeCache' = _volumeCache)
     /\ (last'.op = "putImageLoadObject" /\ ~MapHas(_imageCache, last'.id))
          => /\ last'.err # "already in cache"
             /\ last'.err = "none" => MapHas(_imageCache', last'.id)
     /\ (last'.op = "putVolumeLoadObject" /\ ~MapHas(_volumeCache, last'.id))
          => /\ last'.err # "already in cache"
             /\ last'.err = "none" => MapHas(_volumeCache', last'.id)]_vars

\* C3: when the load of an entry that was removed (removeLoad, eviction,
\* purgeAll) before completing completes later, neither collection nor
\* currentSize() changes.
C3_LateCompletionIsNoOp ==
  [][(last'.op \in Completions /\ last'.who = "removed")
       => /\ _imageCache' = _imageCache
          /\ _volumeCache' = _volumeCache
          /\ _cacheSize' = _cacheSize]_vars

\* C4: purgeAll() ends with both collections empty and currentSize() = 0.
C4_PurgeLeavesNothing ==
  (last.op = "purgeCache" /\ last.err = "none")
    => /\ _imageCache = <<>>
       /\ _volumeCache = <<>>
       /\ _cacheSize = 0

\* C5: the capacity setter called with a value below currentSize() fails
\* and leaves maxSize(), currentSize() and both collections as they were.
C5_LoweringBelowSizeFails ==
  [][(last'.op = "setMaxCacheSize" /\ last'.arg < _cacheSize)
       => /\ last'.err # "none"
          /\ UNCHANGED <<_maxCacheSize, _cacheSize, _imageCache,
                         _volumeCache>>]_vars

\* C6: the capacity setter called with a value >= currentSize() returns
\* without error; afterwards maxSize() is that value, no entry is removed
\* and currentSize() is unchanged.
C6_SettingAtLeastSizeSucceeds ==
  [][(last'.op = "setMaxCacheSize" /\ last'.arg >= _cacheSize)
       => /\ last'.err = "none"
          /\ _maxCacheSize' = last'.arg
          /\ UNCHANGED <<_cacheSize, _imageCache, _volumeCache>>]_vars

\* The image entries as the sweep of this step finds them: the completing
\* entry is loaded by then.
AtSweep(e) ==
  IF last'.op = "ImageLoadFulfilled" /\ last'.who = "attached"
       /\ e.id = last'.id
    THEN [e EXCEPT !.loaded = TRUE]
    ELSE e

\* the image entries gone from the collection in this step
Evicted == {i \in DOMAIN _imageCache : ~MapHas(_imageCache', _imageCache[i].id)}

\* C7: an image entry the eviction sweep removes has the oldest timestamp
\* among the loaded image entries; with max size 100, image A completed with
\* size 60 and then image B completing with size 60, the sweep removes A and
\* leaves only B, total 60.
C7_SweepEvictsOldest ==
  [][(last'.op \in Completions /\ last'.ret = 1)
       => /\ \A i \in Evicted : \A j \in DOMAIN _imageCache :
               AtSweep(_imageCache[j]).loaded
                 => _imageCache[i].timeStamp <= _imageCache[j].timeStamp
          /\ ( /\ _maxCacheSize = 100
               /\ _cacheSize = 60
               /\ _volumeCache = <<>>
               /\ Len(_imageCache) = 2
               /\ _imageCache[1].loaded /\ _imageCache[1].sizeInBytes = 60
               /\ _imageCache[2].promise = "pending"
               /\ _imageCache[1].timeStamp < _imageCache[2].timeStamp
               /\ last'.op = "ImageLoadFulfilled"
               /\ last'.who = "attached"
               /\ last'.id = _imageCache[2].id
               /\ last'.arg = 60 )
             => /\ Ids(_imageCache') = {_imageCache[2].id}
                /\ _cacheSize' = 60]_vars

\* C8: the sweep after a successful completion ends with
\* currentSize() <= maxSize() or with no loaded image entry left.
C8_SweepReachesBudget ==
  (last.op \in Completions /\ last.ret = 1)
    => \/ _cacheSize <= _maxCacheSize
       \/ LoadedIds(_imageCache) = {}

\* C9: the automatic sweep removes no volume entry and no image entry whose
\* load is pending: whatever it removes is a loaded image entry, also when a
\* volume completion triggers it.
C9_SweepRemovesOnlyLoadedImages ==
  [][(last'.op \in Completions /\ last'.ret = 1)
       => /\ Ids(_volumeCache') = Ids(_volumeCache)
          /\ \A i \in Evicted : AtSweep(_imageCache[i]).loaded]_vars

\* C9 witness: a volume completion has put the total over the maximum and
\* run the sweep while a pending image entry and the volume are present.
C9_Witness ==
  /\ last.op = "VolumeLoadFulfilled"
  /\ last.ret = 1
  /\ _cacheSize > _maxCacheSize
  /\ \E i \in DOMAIN _imageCache : ~_imageCache[i].loaded
  /\ MapHas(_volumeCache, last.id)

\* C10: reserve(numBytes) returns without error the headroom
\* maxSize() - currentSize() measured after evicting, which is at least
\* numBytes unless no loaded image is left; with headroom 40 and one
\* evictable image of size 30, reserve(50) returns 70 and leaves headroom 70.
C10_ReserveEvictsAndReturnsHeadroom ==
  [][(last'.op = "decacheUntilBytesAvailable")
       => /\ last'.err = "none"
          /\ last'.ret = _maxCacheSize' - _cacheSize'
          /\ last'.ret >= last'.arg \/ LoadedIds(_imageCache') = {}
          /\ ( /\ last'.arg = 50
               /\ _maxCacheSize - _cacheSize = 40
               /\ Len(_imageCache) = 1
               /\ _imageCache[1].loaded /\ _imageCache[1].sizeInBytes = 30 )
             => /\ last'.ret = 70
                /\ _maxCacheSize' - _cacheSize' = 70]_vars

\* ------------------------------------------------------- claims C11 - C20
Puts == {"putImageLoadObject", "putVolumeLoadObject"}
Rejections == {"ImageLoadRejected", "VolumeLoadRejected"}
Removes == {"removeImageLoadObject", "removeVolumeLoadObject"}
\* the operations that remove entries: explicit removal, purge, reserve and
\* the sweep at the end of a completion
RemovalOps ==
  Removes \cup Completions \cup {"purgeCache", "decacheUntilBytesAvailable"}

\* the Map of the class an operation named in `last` works on
ClassOf(op) ==
  IF op \in {"putImageLoadObject", "getImageLoadObject",
             "removeImageLoadObject", "ImageLoadFulfilled",
             "ImageLoadRejected"}
    THEN "image" ELSE "volume"
CacheOf(cls, ic, vc) == IF cls = "image" THEN ic ELSE vc

\* the entries of `before` whose id is not in `after`
Gone(before, after) ==
  {i \in DOMAIN before : ~MapHas(after, before[i].id)}

CallsOn(calls, cls, id) ==
  SelectSeq(calls, LAMBDA c : c.cls = cls /\ c.id = id)

\* the removed events in `events` whose detail is the entry under id
RemovedEvents(events, type, id) ==
  {k \in DOMAIN events : events[k].type = type /\ events[k].entry.id = id}

\* C11: willExceed(byteLength) fails with the capacity-exceeded error exactly
\* when currentSize() + byteLength > maxSize(), and changes neither
\* currentSize(), maxSize() nor a collection.
C11_WillExceedFailsExactlyWhenOver ==
  [][(last'.op = "checkCacheSizeCanSupportVolume")
       => /\ last'.err = IF _cacheSize + last'.arg > _maxCacheSize
                           THEN "CACHE_SIZE_EXCEEDED" ELSE "none"
          /\ UNCHANGED <<_cacheSize, _maxCacheSize, _imageCache,
                         _volumeCache>>]_vars

\* C11 witness: the check has failed on a cache that holds loaded bytes and
\* is itself within its maximum.
C11_Witness ==
  /\ last.op = "checkCacheSizeCanSupportVolume"
  /\ last.err = "CACHE_SIZE_EXCEEDED"
  /\ _cacheSize > 0
  /\ _cacheSize <= _maxCacheSize

\* C12: a putLoad with an undefined id, a handle without a pending result or
\* a handle whose cancel operation is not callable fails and creates no
\* state: both collections, currentSize() and the registered callbacks are
\* as before.
C12_InvalidPutCreatesNothing ==
  [][(/\ last'.op \in Puts
      /\ \/ last'.id = UNDEFINED
         \/ ~last'.arg.promise
         \/ last'.arg.cancel = "other")
       => /\ last'.err # "none"
          /\ UNCHANGED <<_imageCache, _volumeCache, _cacheSize,
                         detached>>]_vars

\* C13: a successful putLoad(id, handle) leaves an unloaded entry of size 0
\* under id and currentSize() unchanged; as long as that handle has neither
\* completed nor had its entry removed, getLoad(id) returns that handle.
C13_GetLoadReturnsThePutHandle ==
  [][/\ (last'.op \in Puts /\ last'.err = "none")
          => LET cache == CacheOf(ClassOf(last'.op), _imageCache',
                                  _volumeCache')
             IN  /\ MapHas(cache, last'.id)
                 /\ cache[MapIndex(cache, last'.id)].promise = "pending"
                 /\ ~cache[MapIndex(cache, last'.id)].loaded
                 /\ cache[MapIndex(cache, last'.id)].sizeInBytes = 0
                 /\ _cacheSize' = _cacheSize
     /\ (last'.op \in {"getImageLoadObject", "getVolumeLoadObject"})
          => \A who \in {"attached", "replaced"} :
               IsPending(ClassOf(last'.op),
                         CacheOf(ClassOf(last'.op), _imageCache, _volumeCache),
                         last'.id, who)
                 => (last'.ret = 1 /\ who = "attached")]_vars

\* C14: when a load rejects, image or volume, the entry is removed from its
\* collection, currentSize() is unchanged, no notification is emitted and
\* no error leaves the cache.
C14_RejectionDiscardsEntry ==
  [][(last'.op \in Rejections)
       => /\ last'.who = "attached"
               => ~MapHas(CacheOf(ClassOf(last'.op), _imageCache',
                                  _volumeCache'), last'.id)
          /\ _cacheSize' = _cacheSize
          /\ last'.events = <<>>
          /\ last'.err = "none"]_vars

\* the errors a completion callback throws on a malformed sizeInBytes
MalformedErrors ==
  {"sizeInBytes must not be undefined", "sizeInBytes is not a number"}

\* C15: a completion whose artifact has an undefined or non-numeric
\* sizeInBytes adds nothing to currentSize(), emits no added notification
\* and does not leave the entry in the collection as a loaded entry.
C15_MalformedSizeIsLoadFailure ==
  [][(/\ last'.op \in Completions
      /\ last'.who = "attached"
      /\ last'.err \in MalformedErrors)
       => LET cache == CacheOf(ClassOf(last'.op), _imageCache', _volumeCache')
          IN  /\ _cacheSize' = _cacheSize
              /\ last'.events = <<>>
              /\ ~(/\ MapHas(cache, last'.id)
                   /\ cache[MapIndex(cache, last'.id)].loaded)]_vars

\* C16: removeLoad(id) of an id that is not in the class's collection fails
\* with the not-found error, changes neither collection nor currentSize(),
\* emits no notification and calls no hook.
C16_RemoveAbsentFails ==
  [][(/\ last'.op \in Removes
      /\ last'.id # UNDEFINED
      /\ ~MapHas(CacheOf(ClassOf(last'.op), _imageCache, _volumeCache),
                 last'.id))
       => /\ last'.err = "not present"
          /\ last'.events = <<>>
          /\ last'.calls = <<>>
          /\ UNCHANGED <<_imageCache, _volumeCache, _cacheSize,
                         detached>>]_vars

\* C16 witness: a removal of an absent image id has failed on a cache that
\* holds another, loaded image.
C16_Witness ==
  /\ last.op = "removeImageLoadObject"
  /\ last.err = "not present"
  /\ LoadedIds(_imageCache) # {}
  /\ _cacheSize > 0

\* the hook calls an entry that is removed may see: those of a load object
\* none of whose hooks throws
RemovalCalls(cls, id) ==
  {HookCalls(cls, id, h) :
     h \in {g \in Hooks : g.cancel # "throws" /\ g.decache # "throws"}}

\* C17, for the entries of one class that a step removes: the step calls
\* cancel, if present, once and then decache, if present, once, and the
\* step before has called no hook of that entry.
HooksOnce(cls, before, after) ==
  \A i \in Gone(before, after) :
    LET id == before[i].id
        mine == CallsOn(last'.calls, cls, id)
    IN  /\ mine \in RemovalCalls(cls, id)
        /\ last'.op \in Removes => mine = HookCalls(cls, id, last'.arg)
        /\ CallsOn(last.calls, cls, id) = <<>>

\* C17: for every entry removed (explicitly, by eviction, by reserve or by
\* purgeAll) the cache calls the handle's cancel, if present, exactly once
\* and its decache, if present, exactly once, cancel first, both before the
\* entry is deleted; it calls no hook of an entry that is not in the
\* collection.
C17_HooksOnceInOrder ==
  [][(last'.op \in RemovalOps)
       => /\ HooksOnce("image", _imageCache, _imageCache')
          /\ HooksOnce("volume", _volumeCache, _volumeCache')
          /\ \A k \in DOMAIN last'.calls :
               MapHas(CacheOf(last'.calls[k].cls, _imageCache, _volumeCache),
                      last'.calls[k].id)]_vars

\* C18: when cancel or decache throws during removeLoad(id), the call does
\* not fail, the entry is deleted and currentSize() has gone down by the
\* entry's size.
C18_ThrowingHookDoesNotFailRemoval ==
  [][(/\ last'.op \in Removes
      /\ MapHas(CacheOf(ClassOf(last'.op), _imageCache, _volumeCache),
                last'.id)
      /\ (last'.arg.cancel = "throws" \/ last'.arg.decache = "throws"))
       => LET before == CacheOf(ClassOf(last'.op), _imageCache, _volumeCache)
              after == CacheOf(ClassOf(last'.op), _imageCache', _volumeCache')
          IN  /\ last'.err = "none"
              /\ ~MapHas(after, last'.id)
              /\ _cacheSize' =
                   _cacheSize - before[MapIndex(before, last'.id)].sizeInBytes]_vars

\* C19, for the entries of one class that a step removes: the step emits
\* one removed event for the entry, and its detail is the entry as it was.
NotifiedOnce(type, before, after) ==
  \A i \in Gone(before, after) :
    /\ Cardinality(RemovedEvents(last'.events, type, before[i].id)) = 1
    /\ last'.op \notin Completions
         => \E k \in DOMAIN last'.events :
              last'.events[k] = Event(type, before[i])

\* C19: every removal of an entry, by removeLoad, by the eviction sweep or
\* by purgeAll, emits exactly one removal notification for that entry,
\* carrying the entry as it was before the removal.
C19_EveryRemovalNotifiesOnce ==
  [][(last'.op \in RemovalOps)
       => /\ NotifiedOnce("IMAGE_CACHE_IMAGE_REMOVED", _imageCache,
                          _imageCache')
          /\ NotifiedOnce("IMAGE_CACHE_VOLUME_REMOVED", _volumeCache,
                          _volumeCache')]_vars

\* C20: in every reachable state currentSize() is not negative (every
\* artifact size in Sizes is positive).
C20_SizeNeverNegative == _cacheSize >= 0
====
